---------------------------- MODULE Spec2Model ----------------------------
(***************************************************************************)
(* Model of the extraction pipeline of Github-Trending-API:                *)
(*   app/scraping.py  filter_articles, make_soup, scraping_repositories,   *)
(*                    scraping_developers                                  *)
(*   app/main.py      the route handlers that chain them                   *)
(*                                                                         *)
(* Representation.                                                         *)
(*  - A Python str is a sequence of tokens (one-character strings, or a    *)
(*    whole word where the code never looks inside it).                    *)
(*  - An optional value (None or v) is a sequence of length 0 or 1:        *)
(*    None == <<>>, Some(v) == <<v>>.                                      *)
(*  - The page text is a sequence of page tokens [tok |-> ...]: a newline, *)
(*    a piece of text without the marker, a bare occurrence of the marker  *)
(*    "article", or the whole markup of one <article class="Box-row">      *)
(*    element (which contains the marker), carried with its parsed form.   *)
(*  - An item container is the record of the answers it gives to the       *)
(*    navigation queries the extractors make on it (match.p, match.h1.a,   *)
(*    match.div.findNextSibling("div"), ...).                              *)
(***************************************************************************)
EXTENDS Integers, Sequences, FiniteSets, TLC

None == <<>>
Some(v) == <<v>>

----------------------------------------------------------------------------
(* Python str helpers *)

Whitespace == {" ", "\n"}

\* str.strip(): leading and trailing whitespace removed
RECURSIVE LStrip(_)
LStrip(s) == IF s # <<>> /\ Head(s) \in Whitespace THEN LStrip(Tail(s)) ELSE s

RECURSIVE RStrip(_)
RStrip(s) ==
    IF s # <<>> /\ s[Len(s)] \in Whitespace THEN RStrip(SubSeq(s, 1, Len(s) - 1)) ELSE s

Strip(s) == RStrip(LStrip(s))

\* str.strip("/"): leading and trailing slashes removed
RECURSIVE LStripSlash(_)
LStripSlash(s) == IF s # <<>> /\ Head(s) = "/" THEN LStripSlash(Tail(s)) ELSE s

RECURSIVE RStripSlash(_)
RStripSlash(s) ==
    IF s # <<>> /\ s[Len(s)] = "/" THEN RStripSlash(SubSeq(s, 1, Len(s) - 1)) ELSE s

StripSlash(s) == RStripSlash(LStripSlash(s))

\* str.split(sep): always at least one piece, empty pieces kept
RECURSIVE SplitOn(_, _)
SplitOn(s, sep) ==
    IF \A i \in 1..Len(s) : s[i] # sep
    THEN <<s>>
    ELSE LET k == CHOOSE i \in 1..Len(s) : s[i] = sep /\ \A j \in 1..(i - 1) : s[j] # sep
         IN  <<SubSeq(s, 1, k - 1)>> \o SplitOn(SubSeq(s, k + 1, Len(s)), sep)

\* str.split(): split on runs of whitespace, no empty pieces
RECURSIVE SplitWs(_)
SplitWs(s) ==
    LET t == LStrip(s) IN
    IF t = <<>>
    THEN <<>>
    ELSE IF \A i \in 1..Len(t) : t[i] \notin Whitespace
         THEN <<t>>
         ELSE LET k == CHOOSE i \in 1..Len(t) :
                           t[i] \in Whitespace /\ \A j \in 1..(i - 1) : t[j] \notin Whitespace
              IN  <<SubSeq(t, 1, k - 1)>> \o SplitWs(SubSeq(t, k + 1, Len(t)))

\* str.replace(",", "")
RECURSIVE RemoveCommas(_)
RemoveCommas(s) ==
    IF s = <<>> THEN <<>>
    ELSE IF Head(s) = "," THEN RemoveCommas(Tail(s))
         ELSE <<Head(s)>> \o RemoveCommas(Tail(s))

\* "".join(list of str)
RECURSIVE Join(_)
Join(lst) == IF lst = <<>> THEN <<>> ELSE Head(lst) \o Join(Tail(lst))

Digits == {"0", "1", "2", "3", "4", "5", "6", "7", "8", "9"}

DigitVal(c) ==
    CASE c = "0" -> 0 [] c = "1" -> 1 [] c = "2" -> 2 [] c = "3" -> 3 [] c = "4" -> 4
      [] c = "5" -> 5 [] c = "6" -> 6 [] c = "7" -> 7 [] c = "8" -> 8 [] c = "9" -> 9

\* the digit string accepted by int(): digits, single underscores only between digits
IsDigitString(s) ==
    /\ s # <<>>
    /\ \A i \in 1..Len(s) : s[i] \in Digits \cup {"_"}
    /\ s[1] # "_" /\ s[Len(s)] # "_"
    /\ \A i \in 1..(Len(s) - 1) : ~(s[i] = "_" /\ s[i + 1] = "_")

RECURSIVE DigitsValue(_, _)
DigitsValue(s, acc) ==
    IF s = <<>> THEN acc
    ELSE IF Head(s) = "_" THEN DigitsValue(Tail(s), acc)
         ELSE DigitsValue(Tail(s), 10 * acc + DigitVal(Head(s)))

\* int(s) of Python: None stands for the ValueError
ParseInt(s) ==
    LET t    == Strip(s)
        sign == t # <<>> /\ Head(t) \in {"+", "-"}
        body == IF sign THEN Tail(t) ELSE t
    IN  IF IsDigitString(body)
        THEN Some(IF sign /\ Head(t) = "-" THEN 0 - DigitsValue(body, 0)
                  ELSE DigitsValue(body, 0))
        ELSE None

----------------------------------------------------------------------------
(* Page text *)

Newline == [tok |-> "\n"]
PlainText == [tok |-> "x"]
\* an occurrence of the marker outside any row container, e.g. a stray </article>
BareTag == [tok |-> "article"]
\* the markup of one <article class="Box-row"> element, with its parsed form
ItemMarkup(dom) == [tok |-> "item", dom |-> dom]

tag == "article"

\* `tag in line`
TagIn(line) == \E i \in 1..Len(line) : line[i].tok \in {tag, "item"}

\* raw_html.split("\n")
SplitLines(raw_html) == SplitOn(raw_html, Newline)

\* first loop of filter_articles: number of lines holding the tag
RECURSIVE CountArticleTags(_)
CountArticleTags(raw_html_lst) ==
    IF raw_html_lst = <<>> THEN 0
    ELSE (IF TagIn(Head(raw_html_lst)) THEN 1 ELSE 0) + CountArticleTags(Tail(raw_html_lst))

\* one iteration of the second loop of filter_articles, in the order of the code:
\* decrement and set the flag on a tag line, copy the line, clear the flag at zero
CopyStepSkipsClosingLine(line, st) ==
    LET cnt  == IF TagIn(line) THEN st.article_tags_count - 1 ELSE st.article_tags_count
        flag == (TagIn(line) \/ st.is_article) /\ cnt # 0
    IN  [article_tags_count |-> cnt,
         is_article         |-> flag,
         articles_arrays    |-> IF flag THEN Append(st.articles_arrays, line)
                                ELSE st.articles_arrays]

CopyStep(line, st) ==
    LET cnt  == IF TagIn(line) THEN st.article_tags_count - 1 ELSE st.article_tags_count
        flag == TagIn(line) \/ st.is_article
    IN  [article_tags_count |-> cnt,
         is_article         |-> IF cnt = 0 THEN FALSE ELSE flag,
         articles_arrays    |-> IF flag THEN Append(st.articles_arrays, line)
                                ELSE st.articles_arrays]

RECURSIVE CopyLoop(_, _)
CopyLoop(raw_html_lst, st) ==
    IF raw_html_lst = <<>> THEN st
    ELSE CopyLoop(Tail(raw_html_lst), CopyStep(Head(raw_html_lst), st))

\* the list articles_arrays at the end of filter_articles
ArticlesArrays(raw_html) ==
    LET raw_html_lst == SplitLines(raw_html)
    IN  CopyLoop(raw_html_lst,
                 [article_tags_count |-> CountArticleTags(raw_html_lst),
                  is_article         |-> FALSE,
                  articles_arrays    |-> <<>>]).articles_arrays

FilterArticlesKeepsUntaggedPage(raw_html) ==
    IF CountArticleTags(SplitLines(raw_html)) = 0 THEN Join(SplitLines(raw_html))
    ELSE Join(ArticlesArrays(raw_html))

filter_articles(raw_html) == Join(ArticlesArrays(raw_html))

\* make_soup: the lenient parse finds every <article class="Box-row"> element of
\* the fragment, in document order
RECURSIVE make_soup(_)
make_soup(articles_html) ==
    IF articles_html = <<>> THEN <<>>
    ELSE IF Head(articles_html).tok = "item"
         THEN <<Head(articles_html).dom>> \o make_soup(Tail(articles_html))
         ELSE make_soup(Tail(articles_html))

----------------------------------------------------------------------------
(* scraping_repositories: one item container -> one record, or nothing *)

BaseUrl == <<"https://github.com">>

\* Tag.get_text(strip=True) of an element holding one text node
GetText(text) == Strip(text)

\* the anchors of the secondary section in document order: its own links
\* (total stars, forks), then the contributor anchors inside the contributors
\* element; a contributor anchor holds an image and no text
SectionAnchors(sec) ==
    [i \in 1..Len(sec.links) |-> [text |-> sec.links[i], own |-> TRUE]]
    \o (IF sec.built = None THEN <<>>
        ELSE [i \in 1..Len(sec.built[1]) |-> [text |-> <<>>, own |-> FALSE]])

\* stars_built_section.a : the first anchor under the section, or None
SectionA(sec) ==
    IF SectionAnchors(sec) = <<>> THEN None ELSE Some(SectionAnchors(sec)[1])

\* stars_built_section.a.findNextSibling("a") : the next anchor with the same
\* parent; the section's own links and the contributor anchors have different
\* parents
SectionANextSibling(sec) ==
    LET as == SectionAnchors(sec)
    IN  IF Len(as) >= 2 /\ as[1].own = as[2].own THEN Some(as[2]) ELSE None

\* lines 97-106: None stands for the exception (no h1, no anchor, no href, or an
\* href without a second-to-last segment)
RelUrl(match) ==
    IF match.h1a = None \/ match.h1a[1].href = None THEN None
    ELSE IF Len(SplitOn(match.h1a[1].href[1], "/")) < 2 THEN None
         ELSE match.h1a[1].href

\* lines 109-115: [raised, language, lang_color]; a missing swatch, a swatch without
\* style and an empty style raise (TypeError, KeyError, IndexError)
LanguageLenientSwatch(match) ==
    IF match.lang = None
    THEN [raised |-> FALSE, language |-> None, lang_color |-> None]
    ELSE IF \/ match.swatch = None
            \/ match.swatch[1].style = None
            \/ SplitWs(match.swatch[1].style[1]) = <<>>
         THEN [raised |-> FALSE, language |-> Some(GetText(match.lang[1])),
               lang_color |-> None]
         ELSE LET words == SplitWs(match.swatch[1].style[1])
              IN  [raised |-> FALSE, language |-> Some(GetText(match.lang[1])),
                   lang_color |-> Some(words[Len(words)])]

Language(match) ==
    IF match.lang = None
    THEN [raised |-> FALSE, language |-> None, lang_color |-> None]
    ELSE IF \/ match.swatch = None
            \/ match.swatch[1].style = None
            \/ SplitWs(match.swatch[1].style[1]) = <<>>
         THEN [raised |-> TRUE, language |-> Some(GetText(match.lang[1])),
               lang_color |-> None]
         ELSE LET words == SplitWs(match.swatch[1].style[1])
              IN  [raised |-> FALSE, language |-> Some(GetText(match.lang[1])),
                   lang_color |-> Some(words[Len(words)])]

\* line 117 and the first use of its result (line 120): None stands for the
\* AttributeError of a missing first div or a missing sibling div
StarsBuiltSection(match) ==
    IF match.div = None THEN None ELSE match.div[1].next

\* the three numeric fields share one shape (lines 126-133, 141-148, 161-168):
\* an empty or missing raw text gives None, a ValueError leaves the None the
\* variable was initialised with
NumberOf(raw) == IF raw = None \/ raw[1] = <<>> THEN None ELSE ParseInt(raw[1])

\* lines 120-125
RawTotalStars(sec) ==
    IF SectionA(sec) = None THEN None
    ELSE Some(RemoveCommas(GetText(SectionA(sec)[1].text)))

\* lines 136-140
RawForks(sec) ==
    IF SectionANextSibling(sec) = None THEN None
    ELSE Some(RemoveCommas(GetText(SectionANextSibling(sec)[1].text)))

\* lines 151-160: [raised, raw]; an element whose text is empty or blank raises
\* IndexError at .split()[0]
RawStarsSince(sec) ==
    IF sec.since = None THEN [raised |-> FALSE, raw |-> None]
    ELSE IF SplitWs(GetText(sec.since[1])) = <<>> THEN [raised |-> TRUE, raw |-> None]
         ELSE [raised |-> FALSE,
               raw |-> Some(RemoveCommas(SplitWs(GetText(sec.since[1]))[1]))]

\* lines 179-183 for one contributor: None stands for the KeyError / TypeError of
\* a missing href, image or src
ContrData(contributor) ==
    IF \/ contributor.href = None
       \/ contributor.img = None
       \/ contributor.img[1].src = None
    THEN None
    ELSE Some([username |-> StripSlash(contributor.href[1]),
               url      |-> BaseUrl \o contributor.href[1],
               avatar   |-> contributor.img[1].src[1]])

\* lines 178-183: the loop appends to built_by in place and stops at the first
\* contributor that raises
RECURSIVE ContributorsLoop(_, _)
ContributorsLoop(contributors, built_by) ==
    IF contributors = <<>> THEN [raised |-> FALSE, built_by |-> built_by]
    ELSE IF ContrData(Head(contributors)) = None
         THEN [raised |-> TRUE, built_by |-> built_by]
         ELSE ContributorsLoop(Tail(contributors),
                               Append(built_by, ContrData(Head(contributors))[1]))

\* lines 171-183
BuiltBy(sec, built_by) ==
    IF sec.built = None THEN [raised |-> FALSE, built_by |-> built_by]
    ELSE ContributorsLoop(sec.built[1], built_by)

\* line 87: built_by = [] at the top of every iteration, whatever it held before
KeepBuiltBy(previous) == previous

FreshBuiltBy(previous) == <<>>

\* lines 186 and 272: the rank is the enumerate index of the item container plus one
RankOf(rank) == rank + 1

\* lines 72 and 213: the output list is created empty at every call, whatever an
\* earlier call left
SharedOutputList(previous) == previous

NewOutputList(previous) == <<>>

\* lines 185-198
RepositoryRecord(match, rank, since, output, lang, sec, stars_since, built_by) ==
    LET rel_url == RelUrl(match)[1]
        parts   == SplitOn(rel_url, "/")
    IN  [rank           |-> RankOf(rank),
         username       |-> parts[Len(parts) - 1],
         repositoryName |-> parts[Len(parts)],
         url            |-> BaseUrl \o rel_url,
         description    |-> IF match.p = None THEN None ELSE Some(GetText(match.p[1])),
         language       |-> lang.language,
         languageColor  |-> lang.lang_color,
         totalStars     |-> NumberOf(RawTotalStars(sec)),
         forks          |-> NumberOf(RawForks(sec)),
         starsSince     |-> NumberOf(stars_since.raw),
         since          |-> since,
         builtBy        |-> built_by]

\* one iteration of the loop of scraping_repositories (lines 73-204) on the item
\* container `match` at index `rank`: the new values of the local built_by and of
\* the list trending_repositories.  Every exception of the body is caught at
\* line 200 and the item is left out.
ScrapeRepository(match, rank, since, built_by, output) ==
    LET fresh   == FreshBuiltBy(built_by)
        skipped == [built_by |-> fresh, trending_repositories |-> output]
        lang    == Language(match)
        section == StarsBuiltSection(match)
    IN  IF RelUrl(match) = None \/ lang.raised \/ section = None
        THEN skipped
        ELSE LET sec         == section[1]
                 stars_since == RawStarsSince(sec)
                 built       == BuiltBy(sec, fresh)
             IN  IF stars_since.raised
                 THEN skipped
                 ELSE IF built.raised
                      THEN [built_by |-> built.built_by, trending_repositories |-> output]
                      ELSE [built_by |-> built.built_by,
                            trending_repositories |->
                                Append(output,
                                       RepositoryRecord(match, rank, since, output, lang,
                                                        sec, stars_since, built.built_by))]

----------------------------------------------------------------------------
(* scraping_developers *)

\* lines 227-231: the anchor of the first div and its href; None is the `continue`
DevRelUrl(match) ==
    IF match.div_a = None \/ match.div_a[1].href = None THEN None
    ELSE match.div_a[1].href

\* lines 247-269: [raised, repo_name, repo_description, repo_url]; a heading anchor
\* without href raises KeyError at line 262
PopularRepository(match) ==
    IF match.article = None
    THEN [raised |-> FALSE, repo_name |-> None, repo_description |-> None,
          repo_url |-> None]
    ELSE LET art  == match.article[1]
             desc == IF art.desc = None THEN None ELSE Some(GetText(art.desc[1]))
         IN  IF art.h1a = None
             THEN [raised |-> FALSE, repo_name |-> None, repo_description |-> desc,
                   repo_url |-> None]
             ELSE IF art.h1a[1].href = None
                  THEN [raised |-> TRUE, repo_name |-> Some(GetText(art.h1a[1].text)),
                        repo_description |-> desc, repo_url |-> None]
                  ELSE [raised |-> FALSE, repo_name |-> Some(GetText(art.h1a[1].text)),
                        repo_description |-> desc,
                        repo_url |-> Some(BaseUrl \o art.h1a[1].href[1])]

\* lines 278-282
PopularRepositoryOmittedWhenAbsent(match, pop) ==
    IF match.article = None THEN [repositoryName |-> None]
    ELSE [repositoryName |-> pop.repo_name,
          description    |-> pop.repo_description,
          url            |-> pop.repo_url]

PopularRepositoryRecord(match, pop) ==
    [repositoryName |-> pop.repo_name,
     description    |-> pop.repo_description,
     url            |-> pop.repo_url]

\* lines 271-283
DeveloperRecord(match, rank, since, output, pop) ==
    LET rel_url == DevRelUrl(match)[1]
    IN  [rank     |-> RankOf(rank),
         username |-> StripSlash(rel_url),
         name     |-> IF match.h1a = None THEN None ELSE Some(GetText(match.h1a[1].text)),
         url      |-> BaseUrl \o rel_url,
         avatar   |-> IF match.img = None \/ match.img[1].src = None THEN None
                      ELSE match.img[1].src,
         since    |-> since,
         popularRepository |-> PopularRepositoryRecord(match, pop)]

\* one iteration of the loop of scraping_developers (lines 214-289): the new value
\* of the list all_trending_developers
ScrapeDeveloper(match, rank, since, output) ==
    LET pop == PopularRepository(match)
    IN  IF DevRelUrl(match) = None \/ pop.raised
        THEN output
        ELSE Append(output, DeveloperRecord(match, rank, since, output, pop))

----------------------------------------------------------------------------
(* Inputs *)

MaxLines == 5      \* lines of a page built from text lines and tag lines
MaxItems == 2      \* item containers of a page built from item lines
MaxContribs == 2   \* contributor anchors of one contributors element

\* all sequences over S of length at most n
RECURSIVE SeqsUpTo(_, _)
SeqsUpTo(S, n) ==
    IF n = 0 THEN {<<>>}
    ELSE LET shorter == SeqsUpTo(S, n - 1)
         IN  shorter \cup {Append(q, x) : q \in {r \in shorter : Len(r) = n - 1}, x \in S}

Alice == [href |-> Some(<<"/", "alice">>),
          img  |-> Some([src |-> Some(<<"https://avatars/alice">>)])]
Bob == [href |-> Some(<<"/", "bob", "/">>),
        img  |-> Some([src |-> Some(<<"https://avatars/bob">>)])]
Contributors ==
    {Alice, Bob,
     [href |-> None, img |-> Alice.img],
     [href |-> Alice.href, img |-> None],
     [href |-> Alice.href, img |-> Some([src |-> None])]}

StarsText == <<" ", "1", ",", "2", "3", "4", " ">>
ForksText == <<"5", "6">>
SinceText == <<" ", "7", "8", " ", "stars", " ", "today", " ">>

BaseSection ==
    [links |-> <<StarsText, ForksText>>,
     since |-> Some(SinceText),
     built |-> Some(<<Alice>>)]

\* the sections that differ from BaseSection in one of the three parts
Sections ==
    {[BaseSection EXCEPT !.links = l] :
        l \in {<<>>, <<StarsText>>, <<<<"n", "/", "a">>, <<>>>>, <<ForksText, StarsText>>,
               <<<<",">>, <<"1", "2", "k">>>>, <<<<"1", "_", "0">>, <<"-", "3">>>>,
               <<<<"1", ",", ",", "0", "0", ",">>, <<" ", "7", " ", "8", " ">>>>}}
    \cup {[BaseSection EXCEPT !.since = v] :
        v \in {None, Some(<<>>), Some(<<" ">>), Some(<<"1", ",", "0", "0", "0">>),
               Some(<<"m", "a", "n", "y", " ", "stars">>), Some(<<",", " ", "today">>),
               Some(<<"9", ",", "9", "\n", "1", "2">>)}}
    \cup {[BaseSection EXCEPT !.built = b] :
        b \in {None} \cup {Some(q) : q \in SeqsUpTo(Contributors, MaxContribs)}}
    \cup {[links |-> <<>>, since |-> None, built |-> None],
          [links |-> <<>>, since |-> None, built |-> Some(<<Bob, Alice>>)]}

OctocatHref == <<"/", "octocat", "/", "hello-world">>

BaseRepository ==
    [p      |-> Some(<<" ", "A test repo", " ">>),
     h1a    |-> Some([href |-> Some(OctocatHref)]),
     lang   |-> Some(<<" ", "Python", " ">>),
     swatch |-> Some([style |-> Some(<<"background-color:", " ", "#3572A5">>)]),
     div    |-> Some([next |-> Some(BaseSection)])]

\* item containers as the repository extractor sees them, one per line of a
\* one-item page
RepositoryItems ==
    [p      : {None, BaseRepository.p},
     h1a    : {None, Some([href |-> None]), Some([href |-> Some(<<"hello-world">>)]),
               BaseRepository.h1a},
     lang   : {None, BaseRepository.lang},
     swatch : {None, Some([style |-> None]), Some([style |-> Some(<<" ">>)]),
               BaseRepository.swatch},
     div    : {None, Some([next |-> None])} \cup {Some([next |-> Some(sec)]) : sec \in Sections}]

\* the item containers that pages of several items are built from
SeveralRepositories ==
    {BaseRepository,
     \* no language, no contributors, another repository
     [BaseRepository EXCEPT !.h1a = Some([href |-> Some(<<"/", "rails", "/", "rails">>)]),
                            !.lang = None, !.swatch = None,
                            !.div = Some([next |-> Some([BaseSection EXCEPT !.built = None])])],
     \* no heading anchor
     [BaseRepository EXCEPT !.h1a = None],
     \* language without colour swatch
     [BaseRepository EXCEPT !.swatch = None],
     \* a contributor without image between two well-formed ones
     [BaseRepository EXCEPT
         !.div = Some([next |-> Some([BaseSection EXCEPT
                     !.built = Some(<<Bob, [href |-> Alice.href, img |-> None], Alice>>)])])],
     \* two contributors
     [BaseRepository EXCEPT
         !.div = Some([next |-> Some([BaseSection EXCEPT !.built = Some(<<Bob, Alice>>)])])]}

BaseDeveloper ==
    [div_a   |-> Some([href |-> Some(<<"/", "torvalds">>)]),
     h1a     |-> Some([text |-> <<" ", "Linus Torvalds", " ">>]),
     img     |-> Some([src |-> Some(<<"https://avatars/torvalds">>)]),
     article |-> Some([desc |-> Some(<<" ", "Linux kernel source tree", " ">>),
                       h1a  |-> Some([href |-> Some(<<"/", "torvalds", "/", "linux">>),
                                      text |-> <<" ", "linux", " ">>])])]

\* item containers as the developer extractor sees them
DeveloperItems ==
    [div_a   : {None, Some([href |-> None]), Some([href |-> Some(<<"/", "gaearon", "/">>)]),
                BaseDeveloper.div_a},
     h1a     : {None, BaseDeveloper.h1a},
     img     : {None, Some([src |-> None]), BaseDeveloper.img},
     article : {None} \cup
               {Some(a) : a \in [desc : {None, BaseDeveloper.article[1].desc},
                                 h1a  : {None,
                                         Some([href |-> None, text |-> <<"linux">>]),
                                         BaseDeveloper.article[1].h1a}]}]

SeveralDevelopers ==
    {BaseDeveloper,
     [BaseDeveloper EXCEPT !.div_a = Some([href |-> Some(<<"/", "gaearon", "/">>)]),
                           !.article = None],
     [BaseDeveloper EXCEPT !.div_a = None],
     [BaseDeveloper EXCEPT !.div_a = Some([href |-> None])],
     [BaseDeveloper EXCEPT !.article =
         Some([desc |-> None, h1a |-> Some([href |-> None, text |-> <<"linux">>])])]}

\* "\n".join(lines)
RECURSIVE JoinLines(_)
JoinLines(lines) ==
    IF lines = <<>> THEN <<>>
    ELSE IF Len(lines) = 1 THEN Head(lines)
         ELSE Head(lines) \o <<Newline>> \o JoinLines(Tail(lines))

\* the pages an endpoint may receive from get_request: pages of up to MaxLines
\* lines, each empty, plain text, a bare tag or a whole well-formed item; pages
\* whose single item is any item container of the endpoint; pages of up to
\* MaxItems item lines
Pages(route) ==
    LET base    == IF route = "repositories" THEN BaseRepository ELSE BaseDeveloper
        items   == IF route = "repositories" THEN RepositoryItems ELSE DeveloperItems
        several == IF route = "repositories" THEN SeveralRepositories
                   ELSE SeveralDevelopers
    IN  {JoinLines(q) :
            q \in SeqsUpTo({<<>>, <<PlainText>>, <<BareTag>>, <<ItemMarkup(base)>>},
                           MaxLines)}
        \cup {<<PlainText, Newline, ItemMarkup(it), Newline>> : it \in items}
        \cup {JoinLines([i \in 1..Len(q) |-> <<ItemMarkup(q[i])>>]) :
                q \in SeqsUpTo(several, MaxItems)}

AllowedDateRanges == {"daily", "weekly"}

----------------------------------------------------------------------------
(* The route handlers of main.py, one request served twice on the same input *)

VARIABLES
    endpoint,                \* "repositories" or "developers": the route
    since,                   \* payload["since"]
    raw_html,                \* what get_request returned: None or Some(page)
    pc,                      \* position in the handler
    articles_html,           \* result of filter_articles
    soup,                    \* result of make_soup: the item containers
    rank,                    \* loop index of the extractor
    built_by,                \* local of scraping_repositories
    trending_repositories,   \* list built by scraping_repositories
    all_trending_developers, \* list built by scraping_developers
    scraped_data,            \* None, or Some(list returned by the extractor)
    repeated,                \* the request has been served once already
    first_data               \* scraped_data of the first serving

vars == <<endpoint, since, raw_html, pc, articles_html, soup, rank, built_by,
          trending_repositories, all_trending_developers, scraped_data, repeated,
          first_data>>

Init ==
    /\ endpoint \in {"repositories", "developers"}
    /\ since \in AllowedDateRanges
    /\ raw_html \in {None} \cup {Some(page) : page \in Pages(endpoint)}
    /\ pc = "fetched"
    /\ articles_html = <<>>
    /\ soup = <<>>
    /\ rank = 0
    /\ built_by = <<>>
    /\ trending_repositories = <<>>
    /\ all_trending_developers = <<>>
    /\ scraped_data = None
    /\ repeated = FALSE
    /\ first_data = None

\* `not raw_html.strip()`: only the newline token is whitespace
IsBlank(page) == \A i \in 1..Len(page) : page[i].tok = "\n"

\* main.py: `raw_html is None` or `not raw_html.strip()`
Unavailable(raw) == IF raw = None THEN TRUE ELSE IsBlank(raw[1])

\* HTTP 502, the pipeline is not run
BadGateway ==
    /\ pc = "fetched"
    /\ Unavailable(raw_html)
    /\ pc' = "502"
    /\ UNCHANGED <<endpoint, since, raw_html, articles_html, soup, rank, built_by,
                   trending_repositories, all_trending_developers, scraped_data,
                   repeated, first_data>>

\* articles_html = filter_articles(raw_html)
FilterArticles ==
    /\ pc = "fetched"
    /\ ~Unavailable(raw_html)
    /\ articles_html' = filter_articles(raw_html[1])
    /\ pc' = "filtered"
    /\ UNCHANGED <<endpoint, since, raw_html, soup, rank, built_by,
                   trending_repositories, all_trending_developers, scraped_data,
                   repeated, first_data>>

\* soup = make_soup(articles_html)
MakeSoup ==
    /\ pc = "filtered"
    /\ soup' = make_soup(articles_html)
    /\ pc' = "parsed"
    /\ UNCHANGED <<endpoint, since, raw_html, articles_html, rank, built_by,
                   trending_repositories, all_trending_developers, scraped_data,
                   repeated, first_data>>

\* entry of scraping_repositories (line 72) and start of its enumerate loop
ScrapingRepositoriesCall ==
    /\ pc = "parsed" /\ endpoint = "repositories"
    /\ trending_repositories' = NewOutputList(trending_repositories)
    /\ rank' = 0
    /\ pc' = "scraping_repositories"
    /\ UNCHANGED <<endpoint, since, raw_html, articles_html, soup, built_by,
                   all_trending_developers, scraped_data, repeated, first_data>>

\* one iteration of the loop of scraping_repositories
ScrapingRepositoriesItem ==
    /\ pc = "scraping_repositories" /\ rank < Len(soup)
    /\ LET done == ScrapeRepository(soup[rank + 1], rank, since, built_by,
                                    trending_repositories)
       IN  /\ built_by' = done.built_by
           /\ trending_repositories' = done.trending_repositories
    /\ rank' = rank + 1
    /\ UNCHANGED <<endpoint, since, raw_html, pc, articles_html, soup,
                   all_trending_developers, scraped_data, repeated, first_data>>

\* line 205 and the handler's `return scraped_data`
ScrapingRepositoriesReturn ==
    /\ pc = "scraping_repositories" /\ rank = Len(soup)
    /\ scraped_data' = Some(trending_repositories)
    /\ pc' = "done"
    /\ UNCHANGED <<endpoint, since, raw_html, articles_html, soup, rank, built_by,
                   trending_repositories, all_trending_developers, repeated, first_data>>

\* entry of scraping_developers (line 213) and start of its enumerate loop
ScrapingDevelopersCall ==
    /\ pc = "parsed" /\ endpoint = "developers"
    /\ all_trending_developers' = NewOutputList(all_trending_developers)
    /\ rank' = 0
    /\ pc' = "scraping_developers"
    /\ UNCHANGED <<endpoint, since, raw_html, articles_html, soup, built_by,
                   trending_repositories, scraped_data, repeated, first_data>>

\* one iteration of the loop of scraping_developers
ScrapingDevelopersItem ==
    /\ pc = "scraping_developers" /\ rank < Len(soup)
    /\ all_trending_developers' =
           ScrapeDeveloper(soup[rank + 1], rank, since, all_trending_developers)
    /\ rank' = rank + 1
    /\ UNCHANGED <<endpoint, since, raw_html, pc, articles_html, soup, built_by,
                   trending_repositories, scraped_data, repeated, first_data>>

\* line 290 and the handler's `return scraped_data`
ScrapingDevelopersReturn ==
    /\ pc = "scraping_developers" /\ rank = Len(soup)
    /\ scraped_data' = Some(all_trending_developers)
    /\ pc' = "done"
    /\ UNCHANGED <<endpoint, since, raw_html, articles_html, soup, rank, built_by,
                   trending_repositories, all_trending_developers, repeated, first_data>>

\* the same request arrives again and get_request returns the same text; nothing
\* of the first serving is cleared except by the code that runs next
Repeat ==
    /\ pc = "done" /\ ~repeated
    /\ first_data' = scraped_data
    /\ repeated' = TRUE
    /\ pc' = "fetched"
    /\ UNCHANGED <<endpoint, since, raw_html, articles_html, soup, rank, built_by,
                   trending_repositories, all_trending_developers, scraped_data>>

Next ==
    \/ BadGateway
    \/ FilterArticles
    \/ MakeSoup
    \/ ScrapingRepositoriesCall
    \/ ScrapingRepositoriesItem
    \/ ScrapingRepositoriesReturn
    \/ ScrapingDevelopersCall
    \/ ScrapingDevelopersItem
    \/ ScrapingDevelopersReturn
    \/ Repeat

Spec == Init /\ [][Next]_vars

----------------------------------------------------------------------------
(* Properties *)

\* the item container a record was made from: lines 186 and 272 number a record
\* with the index of its container
ContainerOf(record) == soup[record.rank]

\* the identity anchor with its href is there
HasIdentityAnchor(match) ==
    IF endpoint = "repositories"
    THEN match.h1a # None /\ match.h1a[1].href # None
    ELSE match.div_a # None /\ match.div_a[1].href # None

IdentityHref(match) ==
    IF endpoint = "repositories" THEN match.h1a[1].href[1] ELSE match.div_a[1].href[1]

\* the urls of the items that have their identity anchor, in document order
RECURSIVE KeptUrls(_)
KeptUrls(matches) ==
    IF matches = <<>> THEN <<>>
    ELSE IF HasIdentityAnchor(Head(matches))
         THEN <<BaseUrl \o IdentityHref(Head(matches))>> \o KeptUrls(Tail(matches))
         ELSE KeptUrls(Tail(matches))

\* the record of every well-formed contributor of a list, in order
RECURSIVE WellFormedContributors(_)
WellFormedContributors(contributors) ==
    IF contributors = <<>> THEN <<>>
    ELSE IF ContrData(Head(contributors)) = None
         THEN WellFormedContributors(Tail(contributors))
         ELSE ContrData(Head(contributors)) \o WellFormedContributors(Tail(contributors))

\* C1: the ranks of the returned records are 1, 2, ..., N in output order, also
\* when items were skipped.
C1_RanksAreOneToN ==
    pc = "done" => \A k \in 1..Len(scraped_data[1]) : scraped_data[1][k].rank = k

\* C2: the returned list is the sequence of records of exactly the items that
\* have their identity anchor, in document order.
C2_ExactlyItemsWithIdentityAnchor ==
    pc = "done" =>
        [k \in 1..Len(scraped_data[1]) |-> scraped_data[1][k].url] = KeptUrls(soup)

\* C3: in scraping_repositories an item whose heading anchor has an href gets a
\* record appended whatever the description, colour swatch, secondary section,
\* stars/forks links and stars-in-period element look like (the contributors,
\* which C4 is about, taken well-formed).
C3_FieldFailuresNeverSkipTheItem ==
    [][(/\ pc = "scraping_repositories" /\ rank < Len(soup)
        /\ HasIdentityAnchor(soup[rank + 1])
        /\ LET section == StarsBuiltSection(soup[rank + 1])
           IN  IF section = None THEN TRUE
               ELSE IF section[1].built = None THEN TRUE
                    ELSE \A i \in 1..Len(section[1].built[1]) :
                            ContrData(section[1].built[1][i]) # None)
       => Len(trending_repositories') = Len(trending_repositories) + 1]_vars

\* C4: when the contributors element of an otherwise extractable repository item
\* holds contributor anchors, the record is emitted and its builtBy is the list of
\* the well-formed contributors, in order: a malformed one is dropped alone.
C4_MalformedContributorDroppedAlone ==
    [][(/\ pc = "scraping_repositories" /\ rank < Len(soup)
        /\ RelUrl(soup[rank + 1]) # None
        /\ ~Language(soup[rank + 1]).raised
        /\ LET section == StarsBuiltSection(soup[rank + 1])
           IN  IF section = None THEN FALSE
               ELSE ~RawStarsSince(section[1]).raised /\ section[1].built # None)
       => /\ Len(trending_repositories') = Len(trending_repositories) + 1
          /\ trending_repositories'[Len(trending_repositories')].builtBy =
                 WellFormedContributors(StarsBuiltSection(soup[rank + 1])[1].built[1])]_vars

\* filter_articles has run on raw_html
Filtered == pc \notin {"fetched", "502"} \/ repeated

\* the numbers of the lines of the page that hold the tag marker
TagLines ==
    {i \in 1..Len(SplitLines(raw_html[1])) : TagIn(SplitLines(raw_html[1])[i])}

FirstTagLine == CHOOSE i \in TagLines : \A j \in TagLines : i <= j
LastTagLine == CHOOSE i \in TagLines : \A j \in TagLines : j <= i

\* C5: when some line holds the tag marker, filter_articles outputs exactly the
\* lines from the first marker line through the last marker line, both included
\* and in their order, and no line before the first or after the last.
C5_FirstThroughLastTagLine ==
    (Filtered /\ ~Unavailable(raw_html) /\ TagLines # {}) =>
        articles_html =
            Join(SubSeq(SplitLines(raw_html[1]), FirstTagLine, LastTagLine))

\* a page with a text line before the first tag line, a text line between two tag
\* lines and a text line after the last tag line has been filtered
C5_Witness ==
    /\ pc = "filtered" /\ ~Unavailable(raw_html) /\ TagLines # {}
    /\ 1 < FirstTagLine
    /\ LastTagLine < Len(SplitLines(raw_html[1]))
    /\ \E i \in (FirstTagLine + 1)..(LastTagLine - 1) : i \notin TagLines
    /\ Len(articles_html) = 3

\* C6: when no line holds the tag marker, filter_articles returns the empty
\* string (also for the blank pages the handlers answer with 502 before calling
\* it), make_soup finds no item container in it and both extractors return the
\* empty list: the handler ends with a list, not with an error.
C6_NoMarkerGivesEmptyList ==
    (raw_html # None /\ TagLines = {}) =>
        /\ filter_articles(raw_html[1]) = <<>>
        /\ Filtered =>
              /\ articles_html = <<>>
              /\ pc \in {"parsed", "scraping_repositories", "scraping_developers", "done"}
                    => soup = <<>>
              /\ pc = "done" => scraped_data = Some(<<>>)

\* scraping_developers has returned for a page of text without the marker
C6_Witness ==
    /\ pc = "done" /\ endpoint = "developers"
    /\ Len(raw_html[1]) >= 3 /\ TagLines = {}
    /\ scraped_data = Some(<<>>)

\* C7: in every record of scraping_repositories language and languageColor are
\* both null or both non-null, and both null when the item container has no
\* language indicator.
C7_LanguageAndColourArePaired ==
    \A k \in 1..Len(trending_repositories) :
        LET record == trending_repositories[k]
        IN  /\ (record.language = None) <=> (record.languageColor = None)
            /\ ContainerOf(record).lang = None =>
                   record.language = None /\ record.languageColor = None

\* a returned list with a record of an item without language indicator (that has a
\* colour swatch all the same) and a record with language and colour
C7_Witness ==
    /\ pc = "done" /\ endpoint = "repositories"
    /\ \E k \in 1..Len(scraped_data[1]) :
          /\ ContainerOf(scraped_data[1][k]).lang = None
          /\ scraped_data[1][k].languageColor = None
    /\ \E k \in 1..Len(scraped_data[1]) :
          /\ scraped_data[1][k].language = Some(<<"Python">>)
          /\ scraped_data[1][k].languageColor = Some(<<"#3572A5">>)

C9_PopularRepositoryAlwaysPresent ==
    \A k \in 1..Len(all_trending_developers) :
        LET record == all_trending_developers[k]
        IN  /\ "popularRepository" \in DOMAIN record
            /\ DOMAIN record.popularRepository = {"repositoryName", "description", "url"}
            /\ ContainerOf(record).article = None =>
                   /\ record.popularRepository.repositoryName = None
                   /\ record.popularRepository.description = None
                   /\ record.popularRepository.url = None

\* a returned list with a record of a developer without nested article and a
\* record of a developer with one
C9_Witness ==
    /\ pc = "done" /\ endpoint = "developers"
    /\ \E k \in 1..Len(scraped_data[1]) : ContainerOf(scraped_data[1][k]).article = None
    /\ \E k \in 1..Len(scraped_data[1]) :
          scraped_data[1][k].popularRepository.url # None

\* C10: serving the same input with the same since value a second time returns
\* the list the first serving returned.
C10_SecondCallReturnsTheSame ==
    (pc = "done" /\ repeated) => scraped_data = first_data

\* the second serving of a page of two item containers has returned one record,
\* with contributors, the other item having been skipped
C10_Witness ==
    /\ pc = "done" /\ repeated
    /\ Len(soup) = 2 /\ Len(scraped_data[1]) = 1
    /\ scraped_data[1][1].builtBy # <<>>

\* the integer a numeric text stands for: commas removed, then parsed as an
\* integer; None when that is no integer
IntegerOf(text) == ParseInt(RemoveCommas(text))

\* the first whitespace-separated token of a text, the empty text when it has none
FirstToken(text) == IF SplitWs(text) = <<>> THEN <<>> ELSE SplitWs(text)[1]

\* the repository item can be extracted as far as the numeric fields are not
\* concerned: heading href, language pair, secondary section and contributors
ExtractableButForNumbers(match) ==
    /\ RelUrl(match) # None
    /\ ~Language(match).raised
    /\ LET section == StarsBuiltSection(match)
       IN  IF section = None THEN FALSE
           ELSE IF section[1].built = None THEN TRUE
                ELSE \A i \in 1..Len(section[1].built[1]) :
                        ContrData(section[1].built[1][i]) # None

\* C11: totalStars, forks and starsSince are the integer of their source text
\* (starsSince: of its first token) and null when that text is no integer; the
\* record is emitted all the same with its other fields intact, and forks is
\* null when the secondary section has no total-stars link.
C11_NumbersParsedOrNullRecordKept ==
    [][(/\ pc = "scraping_repositories" /\ rank < Len(soup)
        /\ ExtractableButForNumbers(soup[rank + 1]))
       => LET match  == soup[rank + 1]
              sec    == StarsBuiltSection(match)[1]
              record == trending_repositories'[Len(trending_repositories')]
          IN  /\ Len(trending_repositories') = Len(trending_repositories) + 1
              /\ record.totalStars =
                     IF SectionA(sec) = None THEN None
                     ELSE IntegerOf(SectionA(sec)[1].text)
              /\ record.forks =
                     IF SectionANextSibling(sec) = None THEN None
                     ELSE IntegerOf(SectionANextSibling(sec)[1].text)
              /\ SectionA(sec) = None => record.forks = None
              /\ record.starsSince =
                     IF sec.since = None THEN None
                     ELSE IntegerOf(FirstToken(sec.since[1]))
              /\ record.url = BaseUrl \o match.h1a[1].href[1]
              /\ record.language = Language(match).language
              /\ record.builtBy = BuiltBy(sec, <<>>).built_by]_vars

\* C12: in scraping_developers an item whose first-div anchor has an href gets a
\* record appended whatever its other fields look like: no heading anchor gives
\* name null, no image or src gives avatar null, and in a nested article a
\* missing secondary text, heading anchor or heading-anchor href makes null the
\* popularRepository leaf it feeds and nothing else.
C12_DeveloperFieldFailuresNeverSkip ==
    [][(/\ pc = "scraping_developers" /\ rank < Len(soup)
        /\ HasIdentityAnchor(soup[rank + 1]))
       => LET match  == soup[rank + 1]
              record == all_trending_developers'[Len(all_trending_developers')]
          IN  /\ Len(all_trending_developers') = Len(all_trending_developers) + 1
              /\ record.username = StripSlash(match.div_a[1].href[1])
              /\ record.url = BaseUrl \o match.div_a[1].href[1]
              /\ record.name =
                     IF match.h1a = None THEN None ELSE Some(Strip(match.h1a[1].text))
              /\ record.avatar =
                     IF match.img = None THEN None ELSE match.img[1].src
              /\ record.popularRepository.description =
                     IF match.article = None THEN None
                     ELSE IF match.article[1].desc = None THEN None
                          ELSE Some(Strip(match.article[1].desc[1]))
              /\ record.popularRepository.repositoryName =
                     IF match.article = None THEN None
                     ELSE IF match.article[1].h1a = None THEN None
                          ELSE Some(Strip(match.article[1].h1a[1].text))
              /\ record.popularRepository.url =
                     IF match.article = None THEN None
                     ELSE IF match.article[1].h1a = None THEN None
                          ELSE IF match.article[1].h1a[1].href = None THEN None
                               ELSE Some(BaseUrl \o match.article[1].h1a[1].href[1])]_vars

============================================================================
